---------------------------- MODULE Spec2Model ----------------------------
(***************************************************************************)
(* Model of src/context.rs of rust-mustache: the compilation Context, the  *)
(* PartialLoader capability and the file-system backed DefaultLoader.      *)
(*                                                                         *)
(* Paths are sequences of one-character strings, file contents are         *)
(* sequences of bytes (numbers), texts handed to the compiler are          *)
(* sequences of code points (numbers).                                     *)
(***************************************************************************)
EXTENDS Integers, Sequences, FiniteSets, TLC

VARIABLES ctxs, fs, last

vars == <<ctxs, fs, last>>

---------------------------------------------------------------------------
(* Bounds of the model *)

\* longest name handed to PartialLoader::load directly
MaxName == 3
\* longest path handed to Context::compile_path
MaxPath == 1

SeqsUpTo(S, n) == UNION {[1..k -> S] : k \in 0..n}

PathChars == {"a", ".", "/"}
Names == SeqsUpTo(PathChars, MaxName)
Paths == SeqsUpTo(PathChars, MaxPath)

\* root directories a DefaultLoader is configured with: absolute, empty,
\* relative with a trailing separator
Roots == {<<"/", "a">>, <<>>, <<"a", "/">>}
\* extensions given to Context::with_extension
Extensions == {<<>>, <<"a">>}

\* byte contents of the stored file: "", "{", "e-acute" (2 bytes), "{{",
\* a lone lead byte, a lone continuation byte followed by "{"
Contents == {<<>>, <<123>>, <<195, 169>>, <<123, 123>>, <<195>>, <<169, 123>>}
\* character sequences given to Context::compile: "", "X", "{", "X{", "{{"
Texts == {<<>>, <<88>>, <<123>>, <<88, 123>>, <<123, 123>>}

---------------------------------------------------------------------------
(* Result<T, E> *)

\* F applied to the value of e, which is computed once
Let(e, F(_)) == CHOOSE r \in {F(x) : x \in {e}} : TRUE

Ok(v) == [ok |-> TRUE, val |-> v]
Err(e) == [ok |-> FALSE, err |-> e]

---------------------------------------------------------------------------
(* std::path on Unix, as used by DefaultLoader::load *)

has_root(p) == Len(p) > 0 /\ p[1] = "/"

RECURSIVE SkipSeps(_, _)
\* the last index <= e of p that holds no separator, 0 when there is none
SkipSeps(p, e) == IF e = 0 \/ p[e] # "/" THEN e ELSE SkipSeps(p, e - 1)

RECURSIVE CompStart(_, _)
\* the first index of the component of p that ends at e
CompStart(p, e) == IF e = 0 \/ p[e] = "/" THEN e + 1 ELSE CompStart(p, e - 1)

RECURSIVE next_back(_, _)
\* Components::next_back on p[1..e]: trailing separators and "." components
\* are skipped, a leading "." of a relative path is CurDir
next_back(p, e) ==
    Let(SkipSeps(p, e), LAMBDA e1 :
        IF e1 = 0
        THEN [kind |-> IF has_root(p) THEN "RootDir" ELSE "None"]
        ELSE Let(CompStart(p, e1), LAMBDA s :
                 IF SubSeq(p, s, e1) = <<".">>
                 THEN IF s = 1 THEN [kind |-> "CurDir"]
                      ELSE next_back(p, s - 1)
                 ELSE IF SubSeq(p, s, e1) = <<".", ".">>
                      THEN [kind |-> "ParentDir"]
                      ELSE [kind |-> "Normal", first |-> s, last |-> e1]))

\* Path::file_name: the last component when it is a normal one
file_name(p) ==
    Let(next_back(p, Len(p)), LAMBDA c :
        IF c.kind = "Normal" THEN Ok(SubSeq(p, c.first, c.last))
        ELSE Err("None"))

\* index of the last "." of a file name, 0 when it has none
LastDot(f) ==
    LET D == {i \in 1..Len(f) : f[i] = "."} IN
    IF D = {} THEN 0 ELSE CHOOSE i \in D : \A j \in D : j <= i

\* rsplit_file_at_dot: a name without a dot, or whose only dot leads it,
\* has no extension
stem_of(f) ==
    LET d == LastDot(f) IN IF d <= 1 THEN f ELSE SubSeq(f, 1, d - 1)

extension_of(f) ==
    LET d == LastDot(f) IN
    IF d <= 1 THEN Err("None") ELSE Ok(SubSeq(f, d + 1, Len(f)))

\* Path::extension
extension(p) ==
    LET f == file_name(p) IN IF f.ok THEN extension_of(f.val) ELSE Err("None")

\* PathBuf::join: an absolute path replaces the base, otherwise a separator
\* is added unless the base is empty or already ends with one
join(base, path) ==
    LET need_sep == base # <<>> /\ base[Len(base)] # "/" IN
    IF has_root(path) THEN path
    ELSE IF need_sep THEN base \o <<"/">> \o path
    ELSE base \o path

\* set_extension that pushes ".ext" after the whole file name
set_extension_Append(p, ext) ==
    Let(next_back(p, Len(p)), LAMBDA c :
        IF c.kind # "Normal" THEN p
        ELSE SubSeq(p, 1, c.last) \o <<".">> \o ext)

\* set_extension that pushes the "." also before an empty extension
set_extension_AlwaysDot(p, ext) ==
    Let(next_back(p, Len(p)), LAMBDA c :
        IF c.kind # "Normal" THEN p
        ELSE SubSeq(p, 1, c.first + Len(stem_of(SubSeq(p, c.first, c.last))) - 1)
             \o <<".">> \o ext)

\* PathBuf::set_extension: nothing happens without a file name; otherwise the
\* buffer is cut right after the file stem and ".ext" is pushed when ext is
\* not empty
set_extension(p, ext) ==
    Let(next_back(p, Len(p)), LAMBDA c :
        IF c.kind # "Normal" THEN p
        ELSE LET stem == stem_of(SubSeq(p, c.first, c.last))
                 cut == SubSeq(p, 1, c.first + Len(stem) - 1)
             IN IF ext = <<>> THEN cut ELSE cut \o <<".">> \o ext)

---------------------------------------------------------------------------
(* The file system: one stored entry below existing directories *)

\* the process's working directory, /a
Cwd == << <<"a">> >>

DefaultExtension == <<"m", "u", "s", "t", "a", "c", "h", "e">>

\* canonical places (component lists) where the stored entry may live
Stored == { << <<"a">>, <<"a", ".">> \o DefaultExtension >>,
            << <<"a">>, <<"a", ".", "a">> >>,
            << <<"a">>, <<"a">> >> }

Entries == {[kind |-> "absent", bytes |-> <<>>],
            [kind |-> "denied", bytes |-> <<>>],
            [kind |-> "dir", bytes |-> <<>>],
            [kind |-> "ioerr", bytes |-> <<123>>]}
           \cup {[kind |-> "file", bytes |-> b] : b \in Contents}

FileSystems == [path : Stored, entry : Entries]

Prefixes(s) == {SubSeq(s, 1, k) : k \in 0..Len(s)}

\* the directories that exist
Dirs(f) ==
    Prefixes(Cwd) \cup (Prefixes(f.path) \ {f.path})
    \cup (IF f.entry.kind = "dir" THEN {f.path} ELSE {})

RECURSIVE Split(_, _)
\* the components of p[1..e], without the empty and the "." ones
Split(p, e) ==
    Let(SkipSeps(p, e), LAMBDA e1 :
        IF e1 = 0 THEN <<>>
        ELSE Let(CompStart(p, e1), LAMBDA s :
                 IF SubSeq(p, s, e1) = <<".">> THEN Split(p, s - 1)
                 ELSE Append(Split(p, s - 1), SubSeq(p, s, e1))))

IoError(k) == [kind |-> k]

\* what the kernel finds at the canonical place q
Lookup(f, q, trailing_sep) ==
    IF q \in Dirs(f) THEN Ok([kind |-> "dir", bytes |-> <<>>])
    ELSE IF q # f.path \/ f.entry.kind = "absent" THEN Err(IoError("NotFound"))
    ELSE IF trailing_sep THEN Err(IoError("NotADirectory"))
    ELSE IF f.entry.kind = "denied" THEN Err(IoError("PermissionDenied"))
    ELSE Ok(f.entry)

RECURSIVE Walk(_, _, _, _)
\* path resolution, component by component, from directory cur
Walk(f, comps, cur, trailing_sep) ==
    IF comps = <<>> THEN Lookup(f, cur, FALSE)
    ELSE Let(IF Head(comps) = <<".", ".">>
             THEN (IF cur = <<>> THEN cur ELSE SubSeq(cur, 1, Len(cur) - 1))
             ELSE Append(cur, Head(comps)), LAMBDA nxt :
             IF Len(comps) = 1 THEN Lookup(f, nxt, trailing_sep)
             ELSE IF nxt \in Dirs(f)
                  THEN Walk(f, Tail(comps), nxt, trailing_sep)
                  ELSE IF nxt = f.path /\ f.entry.kind # "absent"
                       THEN Err(IoError("NotADirectory"))
                       ELSE Err(IoError("NotFound")))

\* File::open(path): the handle (the entry found) or the io::Error
File_open(f, p) ==
    IF p = <<>> THEN Err(IoError("NotFound"))
    ELSE Walk(f, Split(p, Len(p)), IF has_root(p) THEN <<>> ELSE Cwd,
              p[Len(p)] = "/")

RECURSIVE ValidUtf8(_)
\* str::from_utf8 on one- and two-byte sequences
ValidUtf8(b) ==
    IF b = <<>> THEN TRUE
    ELSE IF b[1] < 128 THEN ValidUtf8(Tail(b))
    ELSE /\ b[1] \in 194..223
         /\ Len(b) >= 2
         /\ b[2] \in 128..191
         /\ ValidUtf8(Tail(Tail(b)))

\* read_to_string that leaves the buffer as it was
read_to_string_Empty(file, buf) ==
    IF file.kind = "dir" THEN Err(IoError("IsADirectory"))
    ELSE IF file.kind = "ioerr" THEN Err(IoError("Other"))
    ELSE IF ValidUtf8(file.bytes) THEN Ok(buf)
    ELSE Err(IoError("InvalidData"))

\* read_to_string that reports invalid UTF-8 as any other failed read
read_to_string_GenericError(file, buf) ==
    IF file.kind = "dir" THEN Err(IoError("IsADirectory"))
    ELSE IF file.kind = "ioerr" THEN Err(IoError("Other"))
    ELSE IF ValidUtf8(file.bytes) THEN Ok(buf \o file.bytes)
    ELSE Err(IoError("Other"))

\* Read::read_to_string(&mut buf): appends the whole content to buf when it
\* can be read and is valid UTF-8, leaves an error otherwise
read_to_string(file, buf) ==
    IF file.kind = "dir" THEN Err(IoError("IsADirectory"))
    ELSE IF file.kind = "ioerr" THEN Err(IoError("Other"))
    ELSE IF ValidUtf8(file.bytes) THEN Ok(buf \o file.bytes)
    ELSE Err(IoError("InvalidData"))

RECURSIVE chars(_)
\* str::chars: the code points of a valid UTF-8 string
chars(s) ==
    IF s = <<>> THEN <<>>
    ELSE IF s[1] < 128 THEN <<s[1]>> \o chars(Tail(s))
    ELSE <<(s[1] - 192) * 64 + (s[2] - 128)>> \o chars(Tail(Tail(s)))

---------------------------------------------------------------------------
(* Collaborators outside context.rs *)

\* impl From<io::Error> for Error
Error_from(e) == [variant |-> "IoError", io |-> e]

\* there is an opened tag "{{"; the alphabet has no "}" to close it
HasOpenTag(cs) == \E i \in 1..(Len(cs) - 1) : cs[i] = 123 /\ cs[i + 1] = 123

\* compiler::Compiler::new(ctx, reader).compile()
Compiler_compile(ctx, reader) ==
    IF HasOpenTag(reader) THEN Err([variant |-> "ParseError"])
    ELSE Ok([tokens |-> IF reader = <<>> THEN <<>> ELSE <<[Text |-> reader]>>,
             partials |-> {}])

\* template::new(ctx, tokens, partials)
template_new(ctx, tokens, partials) ==
    [ctx |-> ctx, tokens |-> tokens, partials |-> partials]

\* a caller's loader that answers every name with the same text
FixedLoader == [kind |-> "FixedLoader", text |-> <<88>>]

---------------------------------------------------------------------------
(* DefaultLoader *)

DefaultLoader_new(template_path, template_extension) ==
    [kind |-> "DefaultLoader",
     template_path |-> template_path,
     template_extension |-> template_extension]

\* the location DefaultLoader::load opens
Location(self, name) ==
    set_extension(join(self.template_path, name), self.template_extension)

\* load without the NotFound arm: every failed open is an error
DefaultLoader_load_NoSuppression(self, name, f) ==
    Let(Location(self, name), LAMBDA path :
    Let([call |-> "open", path |-> path, outcome |-> File_open(f, path)],
        LAMBDA opened :
        IF opened.outcome.ok
        THEN Let(read_to_string(opened.outcome.val, <<>>), LAMBDA r :
                 [result |-> IF r.ok THEN Ok(r.val) ELSE Err(Error_from(r.err)),
                  io |-> <<opened,
                           [call |-> "read", path |-> path, outcome |-> r]>>])
        ELSE [result |-> Err(Error_from(opened.outcome.err)),
              io |-> <<opened>>]))

\* load whose NotFound arm has lost its guard: every failed open is empty text
DefaultLoader_load_SuppressAll(self, name, f) ==
    Let(Location(self, name), LAMBDA path :
    Let([call |-> "open", path |-> path, outcome |-> File_open(f, path)],
        LAMBDA opened :
        IF opened.outcome.ok
        THEN Let(read_to_string(opened.outcome.val, <<>>), LAMBDA r :
                 [result |-> IF r.ok THEN Ok(r.val) ELSE Err(Error_from(r.err)),
                  io |-> <<opened,
                           [call |-> "read", path |-> path, outcome |-> r]>>])
        ELSE [result |-> Ok(<<>>), io |-> <<opened>>]))

\* DefaultLoader::load; io is the sequence of the calls made on the file
\* system with their outcomes
DefaultLoader_load(self, name, f) ==
    Let(Location(self, name), LAMBDA path :
    Let([call |-> "open", path |-> path, outcome |-> File_open(f, path)],
        LAMBDA opened :
        IF opened.outcome.ok
        THEN Let(read_to_string(opened.outcome.val, <<>>), LAMBDA r :
                 [result |-> IF r.ok THEN Ok(r.val) ELSE Err(Error_from(r.err)),
                  io |-> <<opened,
                           [call |-> "read", path |-> path, outcome |-> r]>>])
        ELSE IF opened.outcome.err.kind = "NotFound"
             THEN [result |-> Ok(<<>>), io |-> <<opened>>]
             ELSE [result |-> Err(Error_from(opened.outcome.err)),
                   io |-> <<opened>>]))

\* PartialLoader::load, by implementation
load(self, name, f) ==
    IF self.kind = "DefaultLoader" THEN DefaultLoader_load(self, name, f)
    ELSE [result |-> Ok(self.text), io |-> <<>>]

---------------------------------------------------------------------------
(* Context *)

new(path) == [partial_loader |-> DefaultLoader_new(path, DefaultExtension)]

with_extension(path, ext) == [partial_loader |-> DefaultLoader_new(path, ext)]

with_loader(loader) == [partial_loader |-> loader]

\* a clone that falls back to the default extension
Clone_DefaultExtension(self) ==
    IF self.partial_loader.kind = "DefaultLoader"
    THEN new(self.partial_loader.template_path)
    ELSE [partial_loader |-> self.partial_loader]

\* #[derive(Clone)]
Clone(self) == [partial_loader |-> self.partial_loader]

\* Context::compile; calls is the sequence of the compiler's invocations
compile(self, reader) ==
    Let(Compiler_compile(Clone(self), reader), LAMBDA c :
        [result |-> IF ~c.ok THEN Err(c.err)
                    ELSE Ok(template_new(Clone(self), c.val.tokens,
                                         c.val.partials)),
         calls |-> <<[ctx |-> Clone(self), reader |-> reader,
                      outcome |-> c]>>])

\* compile_path that compiles an empty text whatever was loaded
compile_path_EmptyText(self, path, f) ==
    Let(load(self.partial_loader, path, f), LAMBDA l :
        IF ~l.result.ok
        THEN [result |-> Err(l.result.err), loaded |-> l.result, io |-> l.io,
              calls |-> <<>>]
        ELSE Let(compile(self, <<>>), LAMBDA t :
                 [result |-> t.result, loaded |-> l.result, io |-> l.io,
                  calls |-> t.calls]))

\* compile_path that recovers from a failed load by compiling an empty text
compile_path_Recover(self, path, f) ==
    Let(load(self.partial_loader, path, f), LAMBDA l :
        Let(compile(self, IF l.result.ok THEN chars(l.result.val) ELSE <<>>),
            LAMBDA t :
            [result |-> t.result, loaded |-> l.result, io |-> l.io,
             calls |-> t.calls]))

\* Context::compile_path
compile_path(self, path, f) ==
    Let(load(self.partial_loader, path, f), LAMBDA l :
        IF ~l.result.ok
        THEN [result |-> Err(l.result.err), loaded |-> l.result, io |-> l.io,
              calls |-> <<>>]
        ELSE Let(compile(self, chars(l.result.val)), LAMBDA t :
                 [result |-> t.result, loaded |-> l.result, io |-> l.io,
                  calls |-> t.calls]))

---------------------------------------------------------------------------
(* The state machine *)

Contexts ==
    {new(r) : r \in Roots}
    \cup {with_extension(r, e) : r \in Roots, e \in Extensions}
    \cup {with_loader(FixedLoader)}

Who == {"orig", "clone"}

NoCall == [op |-> "none"]

Init ==
    /\ \E c \in Contexts : ctxs = [orig |-> c, clone |-> Clone(c)]
    /\ fs \in FileSystems
    /\ last = NoCall

\* ctx.partial_loader.load(name), called by the user of the context
Load(name) ==
    \E r \in {load(ctxs.orig.partial_loader, name, fs)} :
    /\ last' = [op |-> "load", who |-> "orig", arg |-> name,
                result |-> r.result, io |-> r.io]
    /\ UNCHANGED <<ctxs, fs>>

\* ctxs[w].compile(text.chars())
Compile(w, text) ==
    \E r \in {compile(ctxs[w], text)} :
    /\ last' = [op |-> "compile", who |-> w, arg |-> text,
                result |-> r.result, calls |-> r.calls]
    /\ UNCHANGED <<ctxs, fs>>

\* ctxs[w].compile_path(path)
CompilePath(w, path) ==
    \E r \in {compile_path(ctxs[w], path, fs)} :
    /\ last' = [op |-> "compile_path", who |-> w, arg |-> path,
                result |-> r.result, loaded |-> r.loaded, io |-> r.io,
                calls |-> r.calls]
    /\ UNCHANGED <<ctxs, fs>>

\* the environment removes the stored entry; what was observed before is
\* about another backing resource
Remove ==
    /\ fs.entry.kind # "absent"
    /\ fs' = [fs EXCEPT !.entry = [kind |-> "absent", bytes |-> <<>>]]
    /\ last' = NoCall
    /\ UNCHANGED ctxs

\* the environment stores an entry where there was none
Create(e) ==
    /\ fs.entry.kind = "absent"
    /\ e.kind # "absent"
    /\ fs' = [fs EXCEPT !.entry = e]
    /\ last' = NoCall
    /\ UNCHANGED ctxs

DoLoad == \E n \in Names : Load(n)
DoCompile == \E w \in Who, t \in Texts : Compile(w, t)
DoCompilePath == \E w \in Who, p \in Paths : CompilePath(w, p)
DoCreate == \E e \in Entries : Create(e)

Next == DoLoad \/ DoCompile \/ DoCompilePath \/ Remove \/ DoCreate

Spec == Init /\ [][Next]_vars


---------------------------------------------------------------------------
(* What the last call did *)

\* the last call went through PartialLoader::load of a DefaultLoader
DefaultLoads ==
    /\ last.op \in {"load", "compile_path"}
    /\ ctxs[last.who].partial_loader.kind = "DefaultLoader"

Loader == ctxs[last.who].partial_loader

\* what load returned
Loaded == IF last.op = "load" THEN last.result ELSE last.loaded

\* the File::open of the last load: its path and its outcome
Opened == last.io[1]

IsPrefix(a, b) == Len(a) <= Len(b) /\ SubSeq(b, 1, Len(a)) = a

\* the text after the last separator of a location
LastSegment(p) == SubSeq(p, CompStart(p, Len(p)), Len(p))

\* a root directory as the start of the locations below it
DirPrefix(root) ==
    IF root = <<>> \/ root[Len(root)] = "/" THEN root ELSE root \o <<"/">>

Dotted(ext) == IF ext = <<>> THEN <<>> ELSE <<".">> \o ext

Other(w) == IF w = "orig" THEN "clone" ELSE "orig"

\* the kinds of io::Error the operating system gives
OsErrorKinds ==
    {"NotFound", "PermissionDenied", "NotADirectory", "IsADirectory", "Other"}

---------------------------------------------------------------------------
(* Claims *)

\* C1: whenever opening the resolved location fails with NotFound,
\* DefaultLoader::load returns Ok with the empty string, never an error.
C1_NotFoundIsEmpty ==
    (DefaultLoads /\ ~Opened.outcome.ok /\ Opened.outcome.err.kind = "NotFound")
        => (Loaded.ok /\ Loaded.val = <<>>)

C1_Witness ==
    /\ DefaultLoads
    /\ ~Opened.outcome.ok
    /\ Opened.outcome.err.kind = "NotFound"
    /\ Loaded.ok
    /\ fs.entry.kind = "file"

\* C2: only NotFound is suppressed: any other failure of the open, and any
\* failure of the read (I/O failure, invalid UTF-8), makes load return that
\* error, never a successful text.
C2_OtherFailuresPropagate ==
    DefaultLoads =>
        /\ (~Opened.outcome.ok /\ Opened.outcome.err.kind # "NotFound")
               => (~Loaded.ok /\ Loaded.err = Error_from(Opened.outcome.err))
        /\ (Len(last.io) = 2 /\ ~last.io[2].outcome.ok)
               => (~Loaded.ok /\ Loaded.err = Error_from(last.io[2].outcome.err))
        /\ Loaded.ok
               => \/ ~Opened.outcome.ok /\ Opened.outcome.err.kind = "NotFound"
                  \/ Len(last.io) = 2 /\ last.io[2].outcome.ok

C2_Witness ==
    /\ DefaultLoads
    /\ Len(last.io) = 2
    /\ Opened.outcome.val.kind = "ioerr"
    /\ Opened.outcome.val.bytes # <<>>
    /\ ~Loaded.ok

\* C3: for a name that carries an extension, the final component of the
\* location is the name's stem followed by the suffix (after a "." when the
\* suffix is not empty); the name's extension is not kept before the suffix.
C3_ExtensionReplaced ==
    (DefaultLoads /\ extension(last.arg).ok) =>
        /\ LastSegment(Opened.path) =
               stem_of(file_name(last.arg).val) \o Dotted(Loader.template_extension)
        /\ LastSegment(Opened.path) #
               file_name(last.arg).val \o <<".">> \o Loader.template_extension

C3_Witness ==
    /\ DefaultLoads
    /\ last.arg = <<"a", ".", "a">>
    /\ Loader.template_extension = DefaultExtension
    /\ Opened.path = <<"/", "a", "/", "a", ".">> \o DefaultExtension

\* C4: when the resolved resource exists and holds valid text, load returns
\* Ok with exactly the bytes of the resource.
C4_ExactContent ==
    (/\ DefaultLoads
     /\ Opened.outcome.ok
     /\ Opened.outcome.val.kind = "file"
     /\ ValidUtf8(Opened.outcome.val.bytes))
        => (Loaded.ok /\ Loaded.val = Opened.outcome.val.bytes)

C4_Witness ==
    /\ DefaultLoads
    /\ Opened.outcome.ok
    /\ Opened.outcome.val = [kind |-> "file", bytes |-> <<195, 169>>]
    /\ Loaded.ok

\* C5: when the loader's load succeeds with text T, compile_path yields what
\* compile(T.chars()) yields on the same context; with the loader that
\* answers "X" to every name that is compile("X".chars()).
C5_CompilePathIsCompileOfLoaded ==
    (last.op = "compile_path" /\ last.loaded.ok) =>
        /\ last.result = compile(ctxs[last.who], chars(last.loaded.val)).result
        /\ Loader = FixedLoader
               => last.result = compile(ctxs[last.who], <<88>>).result

C5_Witness ==
    /\ last.op = "compile_path"
    /\ Loader = FixedLoader
    /\ last.arg = <<"a">>
    /\ last.result.ok
    /\ last.result.val.tokens = <<[Text |-> <<88>>]>>

\* C6: compile and compile_path recover from nothing: a failed load is
\* returned as it is and the compiler is not invoked, a failed compilation is
\* returned as it is, and a Template comes only from a successful load and a
\* successful compilation.
C6_NoRecovery ==
    (last.op \in {"compile", "compile_path"}) =>
        /\ (last.op = "compile_path" /\ ~last.loaded.ok)
               => /\ ~last.result.ok
                  /\ last.result.err = last.loaded.err
                  /\ last.calls = <<>>
        /\ (last.calls # <<>> /\ ~last.calls[1].outcome.ok)
               => (~last.result.ok /\ last.result.err = last.calls[1].outcome.err)
        /\ last.result.ok
               => /\ Len(last.calls) = 1
                  /\ last.calls[1].outcome.ok
                  /\ last.op = "compile_path" => last.loaded.ok
                  /\ last.result.val.tokens = last.calls[1].outcome.val.tokens
                  /\ last.result.val.partials = last.calls[1].outcome.val.partials

C6_Witness ==
    /\ last.op = "compile_path"
    /\ ~last.loaded.ok
    /\ last.loaded.err.io.kind = "PermissionDenied"
    /\ ~last.result.ok
    /\ last.calls = <<>>

\* C7: the clone of a context is the context, and compile_path on either
\* copy yields what compile_path on the other copy yields for the same path
\* and the same backing resource: the same result (with the same loader
\* configuration in the Template) from the same loaded text.
C7_CloneBehavesAlike ==
    /\ ctxs.clone = ctxs.orig
    /\ last.op = "compile_path" =>
           /\ compile_path(ctxs[Other(last.who)], last.arg, fs).result = last.result
           /\ compile_path(ctxs[Other(last.who)], last.arg, fs).loaded = last.loaded

C7_Witness ==
    /\ last.op = "compile_path"
    /\ last.who = "clone"
    /\ last.loaded.ok
    /\ last.loaded.val # <<>>
    /\ last.result.ok
    /\ last.result.val.ctx = ctxs.orig

\* C8: when the resource exists and is not valid text, load returns an error
\* that differs from the not-found result (Ok with the empty string) and from
\* the error of every failure of the operating system.
C8_DecodingErrorIsDistinct ==
    (/\ DefaultLoads
     /\ Opened.outcome.ok
     /\ Opened.outcome.val.kind = "file"
     /\ ~ValidUtf8(Opened.outcome.val.bytes))
        => /\ ~Loaded.ok
           /\ Loaded.err \notin {Error_from(IoError(k)) : k \in OsErrorKinds}

C8_Witness ==
    /\ DefaultLoads
    /\ Opened.outcome.ok
    /\ Opened.outcome.val = [kind |-> "file", bytes |-> <<195>>]
    /\ ~Loaded.ok
    /\ Loaded.err.io.kind = "InvalidData"

\* C9: the location load opens is {root}/{name with its extension replaced
\* by the suffix}: it always starts with the configured root directory and
\* the extension of its final component is always the configured suffix.
\* Stated for the names that hold a letter and for a suffix that is not empty.
C9_RootPrefixSuffixExtension ==
    (/\ DefaultLoads
     /\ Loader.template_extension # <<>>
     /\ \E i \in 1..Len(last.arg) : last.arg[i] = "a")
        => /\ IsPrefix(DirPrefix(Loader.template_path), Opened.path)
           /\ extension(Opened.path) = Ok(Loader.template_extension)

=============================================================================
